---- MODULE Spec2Model ----
(***************************************************************************)
(* Model of the extraction-and-scoring core of src/app_production.py:     *)
(* the decode fallback chain (extract_audio_features_multiple_methods),   *)
(* the per-feature extraction (extract_librosa_features), the byte        *)
(* heuristic (analyze_audio_basic_properties followed by                  *)
(* convert_basic_to_audio_features), the scorer (analyze_emotion_robust)  *)
(* and the /analyze route (analyze_audio).                                *)
(*                                                                         *)
(* Floating point values are kept as exact fixed-point integers, one unit *)
(* per feature, chosen so that the byte heuristic's arithmetic is exact:  *)
(*   duration           1/88200 s   (one byte of the size estimate)       *)
(*   spectral_centroid  1/1024 Hz   spectral_rolloff  1/1024 Hz           *)
(*   rms                1/1024000   zcr               1/256000            *)
(*   chroma_mean        1/2560      mfcc_mean 1/64    mfcc_std 1/256      *)
(*   audio_std          1/2560      audio_max         1/512               *)
(*   tempo              1 BPM                                             *)
(*   emotion scores     1/882000 point (a score times duration/10)        *)
(* The arithmetic is exact; the code's doubles can differ from it in the  *)
(* last bit of a product with duration / 10.0.                            *)
(***************************************************************************)
EXTENDS Integers, Sequences, FiniteSets, TLC

VARIABLES
    pc,         \* position of the request / call being modelled
    file,       \* the input file: [empty, ext]; its size and header bytes
                \* are drawn where the byte heuristic reads them
    fs,         \* paths that exist on disk
    y,          \* decoded buffer: number of samples (0 = empty), -1 = none
    sr,         \* sample rate of the decoded buffer
    log,        \* outcome of each strategy of the chain, for this call
    features,   \* value returned by the extractor (None or a feature dict)
    result,     \* value returned by analyze_emotion_robust (None or a dict)
    response,   \* HTTP response of analyze_audio: [status, body]
    conc        \* concurrent requests: [clock, disk, req], see ConcNext

vars == <<pc, file, fs, y, sr, log, features, result, response, conc>>

\* ------------------------------------------------------------------ values

\* Python's None, kept a record so that it compares with the dicts.
None == [none |-> TRUE]

\* float('nan') and float('inf') of a feature value, outside every grid.
NaN == -(2^30)
Inf == 2^30

\* Float comparisons: every comparison with NaN is false.
Gt(a, b) == a # NaN /\ b # NaN /\ a > b
Lt(a, b) == a # NaN /\ b # NaN /\ a < b

\* dict.get(key, default)
Get(d, key, default) == IF key \in DOMAIN d THEN d[key] ELSE default

\* Python's min(a, b) and max(a, b) on floats: b when b compares below
\* (above) a, else a.
PyMin(a, b) == IF Lt(b, a) THEN b ELSE a
PyMax(a, b) == IF Gt(b, a) THEN b ELSE a

\* ------------------------------------------------------------------- units

\* estimated_duration = file_size / (44100 * 2): one duration unit per byte.
BytesPerSecond == 44100 * 2
Seconds(s) == s * BytesPerSecond
\* len(y) / sr; the rates modelled divide BytesPerSecond.
SamplesToDuration(n, rate) == n * (BytesPerSecond \div rate)

TargetRate == 22050

Hz(h) == h * 1024
RmsMilli(m) == m * 1024
ZcrMilli(m) == m * 256
ChromaTenths(t) == t * 256

\* One score point, after the duration factor (duration / 10.0) is applied.
ScoreUnit == Seconds(10)

\* ------------------------------------------------------------------ scorer

\* emotion_scores, in the dict's insertion order (the order max() scans).
Emotions == <<"Alegria", "Tristeza", "Ansiedad", "Enojo", "Neutral">>
EmotionSet == {Emotions[i] : i \in 1..Len(Emotions)}

\* Faulty variant of BaseScores: Neutral starts level with the others.
BaseScoresFlat ==
    [Alegria |-> 5, Tristeza |-> 5, Ansiedad |-> 5, Enojo |-> 5, Neutral |-> 5]

BaseScores ==
    [Alegria |-> 5, Tristeza |-> 5, Ansiedad |-> 5, Enojo |-> 5, Neutral |-> 10]

Add(s, e, n) == [s EXCEPT ![e] = @ + n]

TempoRule(s, tempo) ==
    IF Gt(tempo, 130) THEN Add(Add(s, "Alegria", 20), "Ansiedad", 15)
    ELSE IF Gt(tempo, 110) THEN Add(Add(s, "Alegria", 12), "Neutral", 8)
    ELSE IF Lt(tempo, 80) THEN Add(s, "Tristeza", 20)
    ELSE IF Lt(tempo, 100) THEN Add(Add(s, "Tristeza", 12), "Neutral", 6)
    ELSE s

CentroidRule(s, centroid) ==
    IF Gt(centroid, Hz(2200)) THEN Add(Add(s, "Alegria", 15), "Ansiedad", 12)
    ELSE IF Gt(centroid, Hz(1800)) THEN Add(Add(s, "Alegria", 8), "Neutral", 5)
    ELSE IF Lt(centroid, Hz(1000)) THEN Add(s, "Tristeza", 15)
    ELSE IF Lt(centroid, Hz(1400)) THEN Add(Add(s, "Tristeza", 8), "Neutral", 4)
    ELSE s

RmsRule(s, rms) ==
    IF Gt(rms, RmsMilli(200)) THEN Add(Add(s, "Enojo", 18), "Alegria", 10)
    ELSE IF Gt(rms, RmsMilli(150)) THEN Add(Add(s, "Alegria", 12), "Enojo", 6)
    ELSE IF Lt(rms, RmsMilli(50)) THEN Add(s, "Tristeza", 15)
    ELSE IF Lt(rms, RmsMilli(100)) THEN Add(Add(s, "Tristeza", 8), "Neutral", 6)
    ELSE s

ZcrRule(s, zcr) ==
    IF Gt(zcr, ZcrMilli(100)) THEN Add(Add(s, "Ansiedad", 18), "Enojo", 10)
    ELSE IF Gt(zcr, ZcrMilli(70)) THEN Add(Add(s, "Ansiedad", 10), "Neutral", 4)
    ELSE IF Lt(zcr, ZcrMilli(30)) THEN Add(Add(s, "Tristeza", 10), "Neutral", 6)
    ELSE s

\* The score table before the duration factor is applied (whole points).
RuleScores(f) ==
    ZcrRule(
      RmsRule(
        CentroidRule(
          TempoRule(BaseScores, Get(f, "tempo", 120)),
          Get(f, "spectral_centroid", Hz(1500))),
        Get(f, "rms", RmsMilli(100))),
      Get(f, "zcr", ZcrMilli(50)))

\* Faulty variant of DurationFactor: the duration is divided by 100 instead of 10.
DurationFactorPerHundred(duration) == PyMin(ScoreUnit, duration \div 10)

\* Faulty variant of DurationFactor: the cap min(1.0, .) is left out.
DurationFactorUncapped(duration) == duration

\* duration_factor = min(1.0, duration / 10.0), as a multiple of 1/ScoreUnit.
DurationFactor(duration) == PyMin(ScoreUnit, duration)

\* Faulty variant of ApplyDuration: the loop does not skip Neutral.
ApplyDurationToAll(s, duration) ==
    [e \in EmotionSet |-> s[e] * DurationFactor(duration)]

\* Every emotion but Neutral is multiplied by the duration factor; the table
\* is kept in ScoreUnit-ths of a point.
ApplyDuration(s, duration) ==
    [e \in EmotionSet |->
        IF e # "Neutral" THEN s[e] * DurationFactor(duration)
        ELSE s[e] * ScoreUnit]

\* Faulty variant of DominantIndex: min() instead of max().
DominantIndexMin(s) ==
    CHOOSE i \in 1..Len(Emotions) :
        /\ \A j \in 1..Len(Emotions) : s[Emotions[j]] >= s[Emotions[i]]
        /\ \A j \in 1..(i - 1) : s[Emotions[j]] > s[Emotions[i]]

\* Faulty variant of DominantIndex: the last maximal entry, as a scan that
\* replaces the best on >= would return.
DominantIndexLast(s) ==
    CHOOSE i \in 1..Len(Emotions) :
        /\ \A j \in 1..Len(Emotions) : s[Emotions[j]] <= s[Emotions[i]]
        /\ \A j \in (i + 1)..Len(Emotions) : s[Emotions[j]] < s[Emotions[i]]

\* max(emotion_scores, key=emotion_scores.get): the first maximal entry.
DominantIndex(s) ==
    CHOOSE i \in 1..Len(Emotions) :
        /\ \A j \in 1..Len(Emotions) : s[Emotions[j]] <= s[Emotions[i]]
        /\ \A j \in 1..(i - 1) : s[Emotions[j]] < s[Emotions[i]]

DominantEmotion(s) == Emotions[DominantIndex(s)]

\* scores_list[1] of sorted(emotion_scores.values(), reverse=True).
SecondScore(s) ==
    LET rest == {s[Emotions[j]] : j \in (1..Len(Emotions)) \ {DominantIndex(s)}}
    IN  CHOOSE v \in rest : \A w \in rest : w <= v

\* Python's int() of the float num / den: truncation toward zero.
IntOf(num, den) == IF num >= 0 THEN num \div den ELSE -((-num) \div den)

ConfidenceBase(s) ==
    LET top == s[DominantEmotion(s)]
        second == SecondScore(s)
    IN  IF second > 0
        THEN IntOf(60 * ScoreUnit + (top - second) * 2, ScoreUnit)
        ELSE IntOf(60 * ScoreUnit + top, ScoreUnit)

\* Faulty variant of Confidence: the min/max clamps are left out.
ConfidenceUnclamped(s, analysis_method) ==
    IF analysis_method = "basic_file_analysis"
    THEN ConfidenceBase(s) - 10
    ELSE ConfidenceBase(s)

\* Faulty variant of Confidence: the byte heuristic's 10 points are added
\* instead of subtracted.
ConfidenceHeuristicBonus(s, analysis_method) ==
    IF analysis_method = "basic_file_analysis"
    THEN PyMin(85, PyMax(60, ConfidenceBase(s) + 10))
    ELSE PyMin(95, PyMax(65, ConfidenceBase(s)))

Confidence(s, analysis_method) ==
    IF analysis_method = "basic_file_analysis"
    THEN PyMin(85, PyMax(60, ConfidenceBase(s) - 10))
    ELSE PyMin(95, PyMax(65, ConfidenceBase(s)))

\* The body of analyze_emotion_robust after its `if not features` test.
\* Every read is a dict.get with a default, every rule a comparison (false
\* on NaN), and the only arithmetic on a feature is min(1.0, duration / 10):
\* no statement of the body can raise on a dict of floats.
ScoreVector(f) ==
    LET duration == Get(f, "duration", Seconds(10))
        analysis_method == Get(f, "analysis_method", "librosa")
        scores == ApplyDuration(RuleScores(f), duration)
    IN  [emotion |-> DominantEmotion(scores),
         confidence |-> Confidence(scores, analysis_method),
         scores |-> scores,
         features_analyzed |-> Cardinality(DOMAIN f),
         audio_duration |-> duration,
         analysis_method |-> analysis_method]

\* Faulty variant of analyze_emotion_robust: a vector without the
\* analysis_method key is refused.
AnalyzeEmotionNeedsTag(f) ==
    IF f = None \/ "analysis_method" \notin DOMAIN f THEN None
    ELSE ScoreVector(f)

analyze_emotion_robust(f) ==
    IF f = None THEN None ELSE ScoreVector(f)

\* ---------------------------------------------------------- byte heuristic

\* len(set(header)) / 256.0 is kept as the number of distinct byte values.
ByteValues == 256
HeaderBytes == 1024

\* Faulty variant of analyze_audio_basic_properties: the 60 s cap is left out.
BasicPropertiesUncapped(size, distinct) ==
    [file_size |-> size,
     estimated_duration |-> size,
     header_entropy |-> distinct,
     file_complexity |-> size]

\* analyze_audio_basic_properties on a readable file of `size` bytes whose
\* first HeaderBytes bytes hold `distinct` different values.  The dict has
\* four keys whatever the size, so it is truthy also for an empty file.
analyze_audio_basic_properties(size, distinct) ==
    [file_size |-> size,
     estimated_duration |-> PyMin(size, Seconds(60)),
     header_entropy |-> distinct,
     file_complexity |-> size]

\* Faulty variant of convert_basic_to_audio_features: the conversion raises, and its
\* except clause returns None.
ConvertBasicRaises(b) == None

\* Faulty variant of convert_basic_to_audio_features: rms starts from 0.15.
ConvertBasicLoud(b) ==
    [mfcc_mean |-> (b.header_entropy - 128) * 5,
     mfcc_std |-> b.header_entropy * 15,
     spectral_centroid |-> Hz(1000) + (b.file_complexity % Hz(1000)),
     zcr |-> ZcrMilli(30) + b.header_entropy * 50,
     rms |-> RmsMilli(150) + (b.file_complexity % Hz(100)),
     tempo |-> 80 + (b.file_size % 80),
     spectral_rolloff |-> Hz(1500) + (b.file_complexity % Hz(1500)),
     chroma_mean |-> ChromaTenths(3) + b.header_entropy * 4,
     duration |-> b.estimated_duration,
     audio_std |-> 128 + b.header_entropy,
     audio_max |-> 256 + b.header_entropy,
     analysis_method |-> "basic_file_analysis"]

convert_basic_to_audio_features(b) ==
    [mfcc_mean |-> (b.header_entropy - 128) * 5,      \* 0.5 is 128/256
     mfcc_std |-> b.header_entropy * 15,
     spectral_centroid |-> Hz(1000) + (b.file_complexity % Hz(1000)),
     zcr |-> ZcrMilli(30) + b.header_entropy * 50,
     rms |-> RmsMilli(50) + (b.file_complexity % Hz(100)),
     tempo |-> 80 + (b.file_size % 80),
     spectral_rolloff |-> Hz(1500) + (b.file_complexity % Hz(1500)),
     chroma_mean |-> ChromaTenths(3) + b.header_entropy * 4,
     duration |-> b.estimated_duration,
     audio_std |-> 128 + b.header_entropy,            \* 0.05 is 128/2560
     audio_max |-> 256 + b.header_entropy,            \* 0.5 is 256/512
     analysis_method |-> "basic_file_analysis"]

\* `if basic_features:` of extract_audio_features_multiple_methods: None and
\* the empty dict are falsy, every other dict is truthy.
Truthy(d) == d # None /\ DOMAIN d # {}

\* -------------------------------------------------------- PCM feature step

\* A per-feature computation that raised.
Raises == -(2^29)

\* Faulty variant of extract_librosa_features: the except clause of step 6
\* sets chroma_mean only, so a failed rolloff leaves no spectral_rolloff key.
ExtractLibrosaDropsRolloff(n, rate, o) ==
    IF n = 0 THEN None
    ELSE
        LET keys == {"mfcc_mean", "mfcc_std", "spectral_centroid", "zcr", "rms",
                     "tempo", "chroma_mean", "duration", "audio_std",
                     "audio_max"}
                    \cup (IF o.rolloff = Raises THEN {} ELSE {"spectral_rolloff"})
            failed6 == o.rolloff = Raises \/ o.chroma = Raises
        IN  [k \in keys |->
                CASE k = "mfcc_mean" -> IF o.mfcc = Raises THEN 0 ELSE o.mfcc
                  [] k = "mfcc_std" -> IF o.mfcc = Raises THEN 256 ELSE o.mfcc_std
                  [] k = "spectral_centroid" ->
                        IF o.centroid = Raises THEN Hz(1500) ELSE o.centroid
                  [] k = "zcr" -> IF o.zcr = Raises THEN ZcrMilli(50) ELSE o.zcr
                  [] k = "rms" -> IF o.rms = Raises THEN RmsMilli(100) ELSE o.rms
                  [] k = "tempo" ->
                        IF o.tempo = Raises \/ o.tempo = NaN THEN 120 ELSE o.tempo
                  [] k = "spectral_rolloff" -> o.rolloff
                  [] k = "chroma_mean" ->
                        IF failed6 THEN ChromaTenths(5) ELSE o.chroma
                  [] k = "duration" -> SamplesToDuration(n, rate)
                  [] k = "audio_std" -> o.audio_std
                  [] OTHER -> o.audio_max]

\* extract_librosa_features(y, sr) for a buffer of n samples, given what each
\* guarded computation produced (Raises, or its value).  np.max of an empty
\* array raises inside the outer try, which returns None.
extract_librosa_features(n, rate, o) ==
    IF n = 0 THEN None
    ELSE
        [mfcc_mean |-> IF o.mfcc = Raises THEN 0 ELSE o.mfcc,
         mfcc_std |-> IF o.mfcc = Raises THEN 256 ELSE o.mfcc_std,
         spectral_centroid |-> IF o.centroid = Raises THEN Hz(1500) ELSE o.centroid,
         zcr |-> IF o.zcr = Raises THEN ZcrMilli(50) ELSE o.zcr,
         rms |-> IF o.rms = Raises THEN RmsMilli(100) ELSE o.rms,
         tempo |-> IF o.tempo = Raises \/ o.tempo = NaN THEN 120 ELSE o.tempo,
         spectral_rolloff |->
            IF o.rolloff = Raises \/ o.chroma = Raises THEN Hz(2000) ELSE o.rolloff,
         chroma_mean |->
            IF o.rolloff = Raises \/ o.chroma = Raises THEN ChromaTenths(5) ELSE o.chroma,
         duration |-> SamplesToDuration(n, rate),
         audio_std |-> o.audio_std,
         audio_max |-> o.audio_max]

\* ------------------------------------------------------------- environment

\* Largest small file size, largest decoded length (in chunks of 5 s) and
\* largest duration handed to the scorer alone (in chunks of 5 s).
MaxSmallSize == 3
MaxChunks == 2
MaxScoreChunks == 3

\* Sizes of non-empty files: small ones and the values around which the
\* heuristic's arithmetic wraps or saturates (80, 256, 1024, 100 KiB,
\* 1000 KiB, 60 s of estimated audio, the 32 MiB upload limit).
FileSizes ==
    (1..MaxSmallSize) \cup
    {79, 80, 159, 160, 255, 256, HeaderBytes, Hz(50), Hz(100) - 1, Hz(100),
     Hz(1000), Seconds(60) - 1, Seconds(60), Seconds(60) + 1,
     32 * 1024 * 1024}

\* Number of distinct byte values a header of a file of `size` bytes can hold.
DistinctCounts(size) ==
    IF size = 0 THEN {0}
    ELSE {k \in (1..MaxSmallSize) \cup {128, 204, 205, ByteValues - 1, ByteValues} :
            k <= size /\ k <= HeaderBytes}

\* The three kinds of upload name: no .webm suffix, a lower-case .webm
\* suffix, a .webm suffix that is not all lower case.
Extensions == {"wav", "webm", "WEBM"}

InputPath == "upload"

\* Faulty variant of IsWebm: the suffix test is left out.
IsWebmAny(f) == TRUE

\* file_path.lower().endswith('.webm')
IsWebm(f) == f.ext \in {"webm", "WEBM"}

\* temp_wav = file_path.replace('.webm', '_converted.wav'): the replacement
\* is case sensitive, so a name ending in .WEBM is left as it is.
TempWav(f) == IF f.ext = "webm" THEN "converted" ELSE InputPath

\* A decode that raised.
Raise == -1

\* Lengths librosa.load can return, in samples at the target rate: an empty
\* buffer, or whole chunks of 5 s up to the 60 s cap (duration=60).
DecodedLengths ==
    {0} \cup {c * 5 * TargetRate : c \in {c \in 1..MaxChunks : c * 5 <= 60}}

\* What librosa.load can do with `path`: raise, or return a buffer.  Nothing
\* can be decoded from a missing file or from a file of zero bytes.
DecodeOutcomes(path) ==
    IF path \notin fs \/ (path = InputPath /\ file.empty) THEN {Raise}
    ELSE {Raise} \cup DecodedLengths

\* Native sample rates of a decodable file (Method 3 loads with sr=None).
NativeRates == {TargetRate, 2 * TargetRate}

\* subprocess.run of ffmpeg: success, a non-zero exit before or after the
\* output file was created, no ffmpeg executable, or a converter process
\* that never exits (the call passes no timeout, so it blocks for as long
\* as the process lives).  ffmpeg refuses an output path equal to its input
\* path, and cannot read an empty input: both exit at once.  Other failures
\* of subprocess.run (an OSError other than a missing executable) are not
\* drawn.
ConverterOutcomes(f) ==
    IF f.empty \/ TempWav(f) = InputPath THEN {"exit_nonzero", "not_found"}
    ELSE {"ok", "exit_nonzero", "exit_nonzero_partial", "not_found",
          "never_exits"}

\* Faulty variant of convert_webm_to_wav_ffmpeg: a non-zero exit that left an
\* output file is reported as success.
ConvertTrustsOutputFile(outcome) == outcome \in {"ok", "exit_nonzero_partial"}

\* convert_webm_to_wav_ffmpeg: True on success, False on CalledProcessError
\* and on FileNotFoundError.
convert_webm_to_wav_ffmpeg(outcome) == outcome = "ok"

\* What the guarded computations of extract_librosa_features can produce.
LibrosaOutcomes ==
    [mfcc : {Raises, -640}, mfcc_std : {2560},
     centroid : {Raises, NaN, Hz(900), Hz(2500)},
     zcr : {Raises, ZcrMilli(20), ZcrMilli(120)},
     rms : {Raises, RmsMilli(40), RmsMilli(250)},
     tempo : {Raises, NaN, Inf, 70, 105, 150},
     rolloff : {Raises, Hz(3000)},
     chroma : {Raises, ChromaTenths(4)},
     audio_std : {640}, audio_max : {512}]

\* Requests the server handles at the same time (Flask's development
\* server runs one thread per request), and the names they upload under:
\* the page's recorder posts every clip as recording.webm.
Requests == {1, 2}
Filenames == {"recording.webm", "voice.wav"}

\* Seconds of the wall clock that pass while the requests run.
MaxClock == 1

\* temp_path = uploads/temp_<YYYYmmdd_HHMMSS>_<filename>, and the temp_wav
\* derived from it by replace('.webm', '_converted.wav').
Paths == [stamp : 0..MaxClock, name : Filenames, converted : BOOLEAN]

\* No request received yet: an empty uploads folder.  disk maps a path to
\* the request whose bytes the file holds, 0 for no file; seen is the
\* request whose bytes the extractor analysed, 0 for none yet, -1 for a
\* file that was missing.
NoRequests ==
    [clock |-> 0,
     disk |-> [p \in Paths |-> 0],
     req |-> [r \in Requests |->
                [pc |-> "idle", name |-> "-", stamp |-> 0, seen |-> 0]]]

\* log.librosa holds what the guarded computations of extract_librosa_features
\* produced, once they ran; log.conv_calls counts the converter processes
\* started.
NoLog ==
    [m1 |-> "-", conv |-> "-", m2 |-> "-", m3 |-> "-", m4 |-> "-",
     librosa |-> None, conv_calls |-> 0]

DecodeTag(o) == IF o = Raise THEN "raise" ELSE IF o = 0 THEN "empty" ELSE "ok"

\* ------------------------------------ extract_audio_features_multiple_methods

\* Method 1: librosa.load at the target rate; a non-empty buffer goes to
\* extract_librosa_features, an exception or an empty buffer falls through.
Method1 ==
    /\ pc = "m1"
    /\ \E o \in DecodeOutcomes(InputPath) :
        /\ log' = [log EXCEPT !.m1 = DecodeTag(o)]
        /\ IF o > 0
           THEN /\ y' = o
                /\ sr' = TargetRate
                /\ pc' = "librosa"
           ELSE /\ UNCHANGED <<y, sr>>
                /\ pc' = IF IsWebm(file) THEN "m2" ELSE "m3"
    /\ UNCHANGED <<file, fs, features, result, response, conc>>

\* Method 2, first half: the converter is run on the input file.  While
\* the converter process runs the caller is blocked in subprocess.run, at
\* "converting": no step of the extractor leaves it.
Method2Convert ==
    /\ pc = "m2"
    /\ \E c \in ConverterOutcomes(file) :
        /\ log' = [log EXCEPT !.conv = c, !.conv_calls = @ + 1]
        /\ fs' = IF c \in {"ok", "exit_nonzero_partial", "never_exits"}
                 THEN fs \cup {TempWav(file)} ELSE fs
        /\ pc' = IF c = "never_exits" THEN "converting"
                 ELSE IF convert_webm_to_wav_ffmpeg(c) THEN "m2load" ELSE "m3"
    /\ UNCHANGED <<file, y, sr, features, result, response, conc>>

\* Method 2, second half: the converted file is loaded and unlinked; the
\* buffer goes to extract_librosa_features whatever its length.  A load
\* that raises unlinks the converted file in the except clause.
Method2Load ==
    /\ pc = "m2load"
    /\ \E o \in DecodeOutcomes(TempWav(file)) :
        /\ log' = [log EXCEPT !.m2 = DecodeTag(o)]
        /\ fs' = fs \ {TempWav(file)}
        /\ IF o = Raise
           THEN /\ UNCHANGED <<y, sr>>
                /\ pc' = "m3"
           ELSE /\ y' = o
                /\ sr' = TargetRate
                /\ pc' = "librosa"
    /\ UNCHANGED <<file, features, result, response, conc>>

\* Method 3: librosa.load at the native rate, resampled to the target rate
\* when they differ; the buffer goes to extract_librosa_features whatever
\* its length.  Resampling an empty buffer raises or returns it empty,
\* depending on the resampler.
Method3 ==
    /\ pc = "m3"
    /\ \E o \in DecodeOutcomes(InputPath), rate \in NativeRates,
          resample_raises \in BOOLEAN :
        /\ resample_raises => (o = 0 /\ rate # TargetRate)
        /\ IF o = Raise \/ resample_raises
           THEN /\ log' = [log EXCEPT !.m3 = "raise"]
                /\ UNCHANGED <<y, sr>>
                /\ pc' = "m4"
           ELSE /\ log' = [log EXCEPT !.m3 = DecodeTag(o)]
                /\ y' = o
                /\ sr' = TargetRate
                /\ pc' = "librosa"
    /\ UNCHANGED <<file, fs, features, result, response, conc>>

\* return extract_librosa_features(y, sr)
ExtractLibrosa ==
    /\ pc = "librosa"
    /\ \E o \in LibrosaOutcomes :
        /\ features' = extract_librosa_features(y, sr, o)
        /\ log' = [log EXCEPT !.librosa = IF y = 0 THEN None ELSE o]
    /\ pc' = "returned"
    /\ UNCHANGED <<file, fs, y, sr, result, response, conc>>

\* Method 4: the byte heuristic.  analyze_audio_basic_properties returns
\* None when the file cannot be read; a truthy dict is converted.
Method4 ==
    /\ pc = "m4"
    /\ \E size \in (IF file.empty THEN {0} ELSE FileSizes) :
       \E distinct \in DistinctCounts(size) :
        LET basic_features ==
                IF InputPath \in fs
                THEN analyze_audio_basic_properties(size, distinct)
                ELSE None
        IN  features' = IF Truthy(basic_features)
                        THEN convert_basic_to_audio_features(basic_features)
                        ELSE None
    /\ log' = [log EXCEPT !.m4 = "run"]
    /\ pc' = "returned"
    /\ UNCHANGED <<file, fs, y, sr, result, response, conc>>

Extract == Method1 \/ Method2Convert \/ Method2Load \/ Method3
              \/ ExtractLibrosa \/ Method4

\* The extractor called on a file on disk, empty or not.
InitExtract ==
    /\ pc = "m1"
    /\ file \in [empty : BOOLEAN, ext : Extensions]
    /\ fs = {InputPath}
    /\ y = -1
    /\ sr = 0
    /\ log = NoLog
    /\ features = None
    /\ result = None
    /\ response = None
    /\ conc = NoRequests

SpecExtract == InitExtract /\ [][Extract]_vars

\* ------------------------------------------------------------ analyze_audio

\* Faulty variant of IsEmptyUpload: the empty-file check is left out.
NeverEmptyUpload(f) == FALSE

\* file_size == 0, on the size of the saved upload.
IsEmptyUpload(f) == f.empty

\* Faulty variant of Finally: the upload is left where it was saved.
FinallyKeepsUpload(files) == files

\* The finally clause of analyze_audio: temp_path is unlinked if it exists.
Finally(files) == files \ {InputPath}

\* The route up to the call of the extractor: the two request checks, the
\* save of the upload, the empty-file check.  Every exit taken here runs the
\* finally clause, which unlinks the saved upload.
AnalyzeAudioReceive ==
    /\ pc = "request"
    /\ \E req \in {"no_audio", "no_filename", "save_raises", "saved"} :
        IF req = "no_audio" THEN
            /\ response' = [status |-> 400, error |-> "no_audio"]
            /\ pc' = "done"
            /\ fs' = fs
        ELSE IF req = "no_filename" THEN
            /\ response' = [status |-> 400, error |-> "no_filename"]
            /\ pc' = "done"
            /\ fs' = fs
        ELSE IF req = "save_raises" THEN
            /\ response' = [status |-> 500, error |-> "internal"]
            /\ pc' = "done"
            /\ fs' = Finally(fs)
        ELSE IF IsEmptyUpload(file) THEN
            /\ response' = [status |-> 400, error |-> "empty_file"]
            /\ pc' = "done"
            /\ fs' = Finally(fs \cup {InputPath})
        ELSE
            /\ response' = response
            /\ pc' = "m1"
            /\ fs' = fs \cup {InputPath}
    /\ UNCHANGED <<file, y, sr, log, features, result, conc>>

\* The route after the extractor returned: a missing vector or a missing
\* result is answered with an error, otherwise the result is packaged; the
\* finally clause unlinks the upload if it still exists.
AnalyzeAudioRespond ==
    /\ pc = "returned"
    /\ IF features = None
       THEN /\ result' = result
            /\ response' = [status |-> 500, error |-> "no_features"]
       ELSE /\ result' = analyze_emotion_robust(features)
            /\ response' =
                IF result' = None
                THEN [status |-> 500, error |-> "no_result"]
                ELSE [status |-> 200,
                      emotion |-> result'.emotion,
                      confidence |-> result'.confidence,
                      features_analyzed |-> result'.features_analyzed,
                      audio_duration |-> Get(result', "audio_duration", 0),
                      analysis_method |-> Get(result', "analysis_method", "unknown"),
                      analysis_type |-> "production_ready"]
    /\ fs' = Finally(fs)
    /\ pc' = "done"
    /\ UNCHANGED <<file, y, sr, log, features, conc>>

Init ==
    /\ pc = "request"
    /\ file \in [empty : BOOLEAN, ext : Extensions]
    /\ fs = {}
    /\ y = -1
    /\ sr = 0
    /\ log = NoLog
    /\ features = None
    /\ result = None
    /\ response = None
    /\ conc = NoRequests

Next == AnalyzeAudioReceive \/ Extract \/ AnalyzeAudioRespond

Spec == Init /\ [][Next]_vars

\* ------------------------------------------------------- the scorer alone

\* Feature values handed to analyze_emotion_robust on its own: values on
\* both sides of every threshold of the rules, and the thresholds.
TempoGrid == {70, 80, 99, 100, 110, 120, 130, 131, 150, Inf}
CentroidGrid == {Hz(h) : h \in {900, 1000, 1200, 1500, 1800, 2000, 2200, 2500}}
RmsGrid == {RmsMilli(m) : m \in {40, 50, 80, 100, 150, 180, 200, 250}}
ZcrGrid == {ZcrMilli(m) : m \in {20, 30, 50, 70, 80, 100, 120}}
DurationGrid == {1, Seconds(3)} \cup {c * Seconds(5) : c \in 0..MaxScoreChunks}

PcmVector(tempo, centroid, rms, zcr, duration) ==
    [mfcc_mean |-> -640, mfcc_std |-> 2560, spectral_centroid |-> centroid,
     zcr |-> zcr, rms |-> rms, tempo |-> tempo, spectral_rolloff |-> Hz(3000),
     chroma_mean |-> ChromaTenths(4), duration |-> duration,
     audio_std |-> 640, audio_max |-> 512]

\* The same vector carrying the byte heuristic's tag.
Tagged(f) ==
    [k \in DOMAIN f \cup {"analysis_method"} |->
        IF k = "analysis_method" THEN "basic_file_analysis" ELSE f[k]]

ScoreInputs ==
    LET pcm == {PcmVector(t, c, r, z, d) :
                  t \in TempoGrid, c \in CentroidGrid, r \in RmsGrid,
                  z \in ZcrGrid, d \in DurationGrid}
    IN  pcm \cup {Tagged(f) : f \in pcm}

\* result = analyze_emotion_robust(features)
ScoreCall ==
    /\ pc = "score"
    /\ result' = analyze_emotion_robust(features)
    /\ pc' = "scored"
    /\ UNCHANGED <<file, fs, y, sr, log, features, response, conc>>

InitScore ==
    /\ pc = "score"
    /\ features \in ScoreInputs
    /\ file = [empty |-> FALSE, ext |-> "wav"]
    /\ fs = {}
    /\ y = -1
    /\ sr = 0
    /\ log = NoLog
    /\ result = None
    /\ response = None
    /\ conc = NoRequests

SpecScore == InitScore /\ [][ScoreCall]_vars

\* ------------------------------------------------------ concurrent requests

\* Two analyze_audio requests handled by two threads over one uploads
\* folder.  Of each request only the steps that touch the folder are kept:
\* the save of the upload, the reads of the decode strategies, the
\* converter's output, and the unlinks.  Every upload is non-empty.

TempPath(q) == [stamp |-> q.stamp, name |-> q.name, converted |-> FALSE]

\* temp_wav = file_path.replace('.webm', '_converted.wav')
ConvertedPath(q) == [TempPath(q) EXCEPT !.converted = TRUE]

NameIsWebm(name) == name = "recording.webm"

ConcFrame == UNCHANGED <<pc, file, fs, y, sr, log, features, result, response>>

\* A second of the wall clock passes.
Tick ==
    /\ conc.clock < MaxClock
    /\ conc' = [conc EXCEPT !.clock = @ + 1]
    /\ ConcFrame

\* analyze_audio up to the call of the extractor: the path is built from
\* the current second and the upload's name, and file.save writes the
\* upload there, over whatever the path held.
ConcReceive(r) ==
    /\ conc.req[r].pc = "idle"
    /\ \E name \in Filenames :
        LET q == [pc |-> "m1", name |-> name, stamp |-> conc.clock, seen |-> 0]
        IN  conc' = [conc EXCEPT !.req[r] = q, !.disk[TempPath(q)] = r]
    /\ ConcFrame

\* Method 1: librosa.load of the upload's path; it raises on a missing file
\* and may raise on any other.
ConcMethod1(r) ==
    LET q == conc.req[r]
        held == conc.disk[TempPath(q)]
    IN  /\ q.pc = "m1"
        /\ \E decoded \in BOOLEAN :
            /\ decoded => held # 0
            /\ conc' = [conc EXCEPT !.req[r] =
                    IF decoded
                    THEN [q EXCEPT !.pc = "cleanup", !.seen = held]
                    ELSE [q EXCEPT !.pc = IF NameIsWebm(q.name)
                                          THEN "m2" ELSE "m3"]]
        /\ ConcFrame

\* Method 2, the converter: ffmpeg writes the converted path, over whatever
\* it held (-y), from the bytes the upload's path holds.
ConcConvert(r) ==
    LET q == conc.req[r]
        held == conc.disk[TempPath(q)]
    IN  /\ q.pc = "m2"
        /\ \E converted \in BOOLEAN :
            /\ converted => held # 0
            /\ conc' =
                IF converted
                THEN [conc EXCEPT !.req[r].pc = "m2load",
                                  !.disk[ConvertedPath(q)] = held]
                ELSE [conc EXCEPT !.req[r].pc = "m3"]
        /\ ConcFrame

\* Method 2, the load of the converted path and its unlink (after the load,
\* or in the except clause when the file exists).
ConcLoadConverted(r) ==
    LET q == conc.req[r]
        held == conc.disk[ConvertedPath(q)]
    IN  /\ q.pc = "m2load"
        /\ \E decoded \in BOOLEAN :
            /\ decoded => held # 0
            /\ conc' = [conc EXCEPT
                    !.disk[ConvertedPath(q)] = 0,
                    !.req[r] = IF decoded
                               THEN [q EXCEPT !.pc = "cleanup", !.seen = held]
                               ELSE [q EXCEPT !.pc = "m3"]]
        /\ ConcFrame

\* Method 3: librosa.load of the upload's path at its native rate.
ConcMethod3(r) ==
    LET q == conc.req[r]
        held == conc.disk[TempPath(q)]
    IN  /\ q.pc = "m3"
        /\ \E decoded \in BOOLEAN :
            /\ decoded => held # 0
            /\ conc' = [conc EXCEPT !.req[r] =
                    IF decoded
                    THEN [q EXCEPT !.pc = "cleanup", !.seen = held]
                    ELSE [q EXCEPT !.pc = "m4"]]
        /\ ConcFrame

\* Method 4: the bytes of the upload's path are read; a missing file gives
\* no features.
ConcMethod4(r) ==
    LET q == conc.req[r]
        held == conc.disk[TempPath(q)]
    IN  /\ q.pc = "m4"
        /\ conc' = [conc EXCEPT !.req[r] =
                [q EXCEPT !.pc = "cleanup",
                          !.seen = IF held # 0 THEN held ELSE -1]]
        /\ ConcFrame

\* The finally clause of analyze_audio: the upload's path is unlinked if
\* it exists, and the response is sent.
ConcCleanup(r) ==
    LET q == conc.req[r]
    IN  /\ q.pc = "cleanup"
        /\ conc' = [conc EXCEPT !.req[r].pc = "done",
                                !.disk[TempPath(q)] = 0]
        /\ ConcFrame

InitConcurrent ==
    /\ pc = "concurrent"
    /\ file = [empty |-> FALSE, ext |-> "webm"]
    /\ fs = {}
    /\ y = -1
    /\ sr = 0
    /\ log = NoLog
    /\ features = None
    /\ result = None
    /\ response = None
    /\ conc = NoRequests

ConcNext ==
    \/ Tick
    \/ \E r \in Requests : ConcReceive(r)
    \/ \E r \in Requests : ConcMethod1(r)
    \/ \E r \in Requests : ConcConvert(r)
    \/ \E r \in Requests : ConcLoadConverted(r)
    \/ \E r \in Requests : ConcMethod3(r)
    \/ \E r \in Requests : ConcMethod4(r)
    \/ \E r \in Requests : ConcCleanup(r)

SpecConcurrent == InitConcurrent /\ [][ConcNext]_vars

\* ------------------------------------------------------------------ claims

\* The feature keys every returned vector is said to hold.
KeySet ==
    {"mfcc_mean", "mfcc_std", "spectral_centroid", "spectral_rolloff", "zcr",
     "rms", "tempo", "chroma_mean", "duration"}

CompleteVector(f) == f # None /\ KeySet \subseteq DOMAIN f

ByteHeuristic(f) ==
    /\ f # None
    /\ "analysis_method" \in DOMAIN f
    /\ f.analysis_method = "basic_file_analysis"

\* C1 (as claimed): for every non-empty input file and every combination of
\* decode, converter and per-feature outcomes, the extractor terminates (a
\* call that has not returned can take a step) and returns a feature vector,
\* never None, holding the complete key set.  The converter outcomes are
\* those of a converter process that exits.
C1_ExtractTotal ==
    (~file.empty /\ log.conv # "never_exits") =>
        /\ pc # "returned" => ENABLED Extract
        /\ pc = "returned" => CompleteVector(features)

\* Every decode strategy that ran raised: the direct decode, the alternate
\* decode, and the converted decode if the converter got that far.
AllDecodesRaised ==
    /\ log.m1 = "raise"
    /\ log.m2 \in {"-", "raise"}
    /\ log.m3 = "raise"

C3_EmptyFileIsFatal ==
    (pc = "returned" /\ file.empty) => features = None

\* C4: analyze_audio answers a zero-length upload with an error response and
\* never runs a strategy of the extractor nor the scorer on it; no analysis
\* result is produced.
C4_EmptyUploadRejected ==
    file.empty =>
        /\ pc \in {"request", "done"}
        /\ log = NoLog
        /\ features = None
        /\ result = None
        /\ pc = "done" => response.status # 200

\* C4 witness: the zero-length upload was saved and answered with the
\* empty-file error.
C4_Witness ==
    /\ pc = "done"
    /\ file.empty
    /\ response = [status |-> 400, error |-> "empty_file"]

\* C5: the confidence returned by analyze_emotion_robust is an integer in
\* 65..95 when the vector is PCM-derived and an integer in 60..85 when its
\* analysis_method is the byte-heuristic tag.
C5_ConfidenceRange ==
    pc = "scored" =>
        IF ByteHeuristic(features)
        THEN result.confidence \in 60..85
        ELSE result.confidence \in 65..95

\* C5 witness: a scored byte-heuristic vector whose unclamped confidence
\* (base - 10) lies below the floor of 60.
C5_Witness ==
    /\ pc = "scored"
    /\ ByteHeuristic(features)
    /\ ConfidenceBase(result.scores) - 10 < 60
    /\ result.confidence = 60

\* The extractor returned the byte heuristic's vector for a non-empty file.
HeuristicReturned ==
    /\ pc = "returned"
    /\ ~file.empty
    /\ log.m4 = "run"
    /\ features # None

C8_ZeroDurationIsNeutral ==
    (pc = "scored" /\ features.duration = 0) =>
        /\ \A e \in EmotionSet \ {"Neutral"} : result.scores[e] = 0
        /\ result.emotion = "Neutral"

\* C8 witness: a scored vector of duration 0 whose other features fire the
\* strongest rules (tempo 150, centroid 2500, rms 0.25, zcr 0.12).
C8_Witness ==
    /\ pc = "scored"
    /\ features.duration = 0
    /\ features.tempo = 150
    /\ features.spectral_centroid = Hz(2500)
    /\ features.rms = RmsMilli(250)
    /\ features.zcr = ZcrMilli(120)
    /\ result.emotion = "Neutral"

\* The vector has the given scoring features.
HasFeatures(f, tempo, centroid, rms, zcr, duration) ==
    /\ f.tempo = tempo
    /\ f.spectral_centroid = centroid
    /\ f.rms = rms
    /\ f.zcr = zcr
    /\ f.duration = duration

\* C9: for the PCM-derived vector tempo=150, spectral_centroid=2500,
\* rms=0.25, zcr=0.05, duration=15 the scorer selects Alegria or Enojo with
\* confidence >= 70.
C9_ScenarioA ==
    (/\ pc = "scored"
     /\ ~ByteHeuristic(features)
     /\ HasFeatures(features, 150, Hz(2500), RmsMilli(250), ZcrMilli(50),
                    Seconds(15))) =>
        /\ result.emotion \in {"Alegria", "Enojo"}
        /\ result.confidence >= 70

\* C9 witness: that vector was scored; Alegria won with 50 points.
C9_Witness ==
    /\ pc = "scored"
    /\ ~ByteHeuristic(features)
    /\ HasFeatures(features, 150, Hz(2500), RmsMilli(250), ZcrMilli(50),
                   Seconds(15))
    /\ result.emotion = "Alegria"
    /\ result.scores["Alegria"] = 50 * ScoreUnit

\* C10: for the vector tempo=70, spectral_centroid=900, rms=0.04, zcr=0.03,
\* duration=15 the scorer selects Tristeza.
C10_ScenarioB ==
    (/\ pc = "scored"
     /\ HasFeatures(features, 70, Hz(900), RmsMilli(40), ZcrMilli(30),
                    Seconds(15))) =>
        result.emotion = "Tristeza"

\* C10 witness: that vector was scored; Tristeza has 55 points (the zcr of
\* exactly 0.03 fires no rule).
C10_Witness ==
    /\ pc = "scored"
    /\ HasFeatures(features, 70, Hz(900), RmsMilli(40), ZcrMilli(30),
                   Seconds(15))
    /\ result.scores["Tristeza"] = 55 * ScoreUnit

\* Position of an emotion in the declaration order of emotion_scores.
Rank(e) == CHOOSE i \in 1..Len(Emotions) : Emotions[i] = e

\* C11: the emotion returned has the maximal score of the returned table,
\* and among several emotions with the maximal score the one earliest in the
\* order Alegria, Tristeza, Ansiedad, Enojo, Neutral is returned.
C11_ArgmaxFirst ==
    pc = "scored" =>
        \A e \in EmotionSet :
            /\ result.scores[e] <= result.scores[result.emotion]
            /\ result.scores[e] = result.scores[result.emotion] =>
                    Rank(result.emotion) <= Rank(e)

\* C11 witness: Tristeza and Neutral share the maximal score (a clip of 5 s
\* halves Tristeza's points to Neutral's) and Tristeza is returned.
C11_Witness ==
    /\ pc = "scored"
    /\ result.scores["Tristeza"] = result.scores["Neutral"]
    /\ \A e \in EmotionSet : result.scores[e] <= result.scores["Tristeza"]
    /\ result.emotion = "Tristeza"

\* The extractor returned a vector built by extract_librosa_features.
PcmReturned ==
    /\ pc = "returned"
    /\ log.m4 = "-"
    /\ features # None

\* C12: every feature vector the extractor returns, whether built by
\* extract_librosa_features or by convert_basic_to_audio_features and
\* whichever per-feature computations failed, holds every key of the fixed
\* set (mfcc_mean, mfcc_std, spectral_centroid, spectral_rolloff, zcr, rms,
\* tempo, chroma_mean, duration).
C12_KeysAlwaysPresent ==
    (pc = "returned" /\ features # None) => KeySet \subseteq DOMAIN features

\* C12 witness: a PCM vector for which every guarded computation failed and
\* every feature holds its default.
C12_Witness ==
    /\ PcmReturned
    /\ KeySet \subseteq DOMAIN features
    /\ features.mfcc_mean = 0
    /\ features.mfcc_std = 256
    /\ features.spectral_centroid = Hz(1500)
    /\ features.zcr = ZcrMilli(50)
    /\ features.rms = RmsMilli(100)
    /\ features.tempo = 120
    /\ features.spectral_rolloff = Hz(2000)
    /\ features.chroma_mean = ChromaTenths(5)

\* The strategy of the chain that produced the buffer or the vector.
Strategy(l) ==
    IF l.m4 = "run" THEN "byte_heuristic"
    ELSE IF l.m3 \in {"ok", "empty"} THEN "alternate_decode"
    ELSE IF l.m2 \in {"ok", "empty"} THEN "converted_decode"
    ELSE IF l.m1 = "ok" THEN "direct_decode"
    ELSE "none"

\* C13 (as claimed): every vector the extractor returns carries a provenance
\* tag, and the tag of the result identifies the strategy with a distinct
\* value for each of direct decode, converted decode, alternate decode and
\* byte heuristic.  Direct decode is reported as 'librosa' and the byte
\* heuristic as 'basic_file_analysis', so distinct values require that
\* 'librosa' is reported for direct decode only.
C13_ProvenanceTag ==
    (pc = "done" /\ result # None) =>
        /\ "analysis_method" \in DOMAIN features
        /\ result.analysis_method = "basic_file_analysis" =>
                Strategy(log) = "byte_heuristic"
        /\ result.analysis_method = "librosa" => Strategy(log) = "direct_decode"

\* C14 (as claimed): in extract_librosa_features, for every subset of the
\* computations (MFCC, spectral centroid, zero-crossing rate, RMS, tempo,
\* spectral rolloff, chroma) that fail, exactly the failing features take
\* their defaults, every feature whose computation succeeded keeps the value
\* computed, and a vector is returned.  (A tempo computed as NaN is left to
\* C15; chroma is not computed once the rolloff raised.)
C14_PerFeatureIsolation ==
    (pc = "returned" /\ log.librosa # None) =>
        LET o == log.librosa
        IN  /\ features # None
            /\ features.mfcc_mean = (IF o.mfcc = Raises THEN 0 ELSE o.mfcc)
            /\ features.mfcc_std = (IF o.mfcc = Raises THEN 256 ELSE o.mfcc_std)
            /\ features.spectral_centroid =
                    (IF o.centroid = Raises THEN Hz(1500) ELSE o.centroid)
            /\ features.zcr = (IF o.zcr = Raises THEN ZcrMilli(50) ELSE o.zcr)
            /\ features.rms = (IF o.rms = Raises THEN RmsMilli(100) ELSE o.rms)
            /\ o.tempo # NaN =>
                    features.tempo = (IF o.tempo = Raises THEN 120 ELSE o.tempo)
            /\ features.spectral_rolloff =
                    (IF o.rolloff = Raises THEN Hz(2000) ELSE o.rolloff)
            /\ o.rolloff # Raises =>
                    features.chroma_mean =
                        (IF o.chroma = Raises THEN ChromaTenths(5) ELSE o.chroma)

Finite(v) == v # NaN /\ v # Inf

\* C15 (as claimed): no feature value returned by extract_librosa_features
\* is non-finite: a computation whose result is NaN or infinite is replaced
\* by that feature's default, and a tempo estimate that is NaN or infinite
\* becomes 120.
C15_FiniteFeatures ==
    (pc = "returned" /\ log.librosa # None) =>
        /\ \A k \in KeySet : Finite(features[k])
        /\ ~Finite(log.librosa.tempo) => features.tempo = 120

\* C16: analyze_audio's call of analyze_emotion_robust returns a result,
\* never None, for every feature vector the extraction chain returned, from
\* a PCM strategy or from the byte heuristic; the request is answered 200
\* with an emotion of the table and the result's confidence.
C16_ScorerTotal ==
    (pc = "done" /\ features # None) =>
        /\ result # None
        /\ result.emotion \in EmotionSet
        /\ DOMAIN result.scores = EmotionSet
        /\ response.status = 200
        /\ response.emotion = result.emotion

\* A PCM vector with a non-finite tempo and no analysis_method key was scored.
C16_Witness ==
    /\ pc = "done"
    /\ features # None
    /\ "analysis_method" \notin DOMAIN features
    /\ ~Finite(features.tempo)
    /\ result # None

\* C17 (as claimed): once extract_audio_features_multiple_methods has
\* returned, the converted file of Method 2 does not exist, whether the
\* conversion succeeded, the converter failed (before or after creating its
\* output) or the converted file failed to decode.
C17_ConvertedFileRemoved ==
    (pc = "returned" /\ log.conv # "-") =>
        (TempWav(file) # InputPath => TempWav(file) \notin fs)

\* C18 (as claimed): the converter call is bounded, so the extractor is
\* never stuck behind a converter process that does not exit: a call that
\* has not returned can take a step (on timeout, to the alternate decode),
\* and it returns with no converter process left running.
C18_ConverterBounded ==
    /\ pc \notin {"returned", "done"} => ENABLED Extract
    /\ pc \in {"returned", "done"} => log.conv # "never_exits"

InFlight(q) == q.pc \notin {"idle", "done"}

\* C19 (as claimed): two requests in flight at the same time never share
\* an upload path or a converted path; the file a request saved stays on
\* disk, holding that request's bytes, until the request's own cleanup; and
\* a request analyses no bytes but its own.
C19_RequestsIsolated ==
    /\ \A r, s \in Requests :
        (r # s /\ InFlight(conc.req[r]) /\ InFlight(conc.req[s])) =>
            /\ TempPath(conc.req[r]) # TempPath(conc.req[s])
            /\ ConvertedPath(conc.req[r]) # ConvertedPath(conc.req[s])
    /\ \A r \in Requests :
        /\ InFlight(conc.req[r]) => conc.disk[TempPath(conc.req[r])] = r
        /\ conc.req[r].seen \in {0, r}

\* C20: Neutral's base is strictly positive, and in every result of
\* analyze_emotion_robust the final Neutral score is at least 10 points,
\* hence strictly positive: the rules only add to it and the duration
\* factor is not applied to it.
C20_NeutralFloor ==
    /\ BaseScores["Neutral"] > 0
    /\ pc = "scored" =>
        /\ result.scores["Neutral"] >= 10 * ScoreUnit
        /\ result.scores["Neutral"] > 0

\* No rule added to Neutral: it ends on exactly its base of 10 points, and
\* another emotion won.
C20_Witness ==
    /\ pc = "scored"
    /\ result.scores["Neutral"] = 10 * ScoreUnit
    /\ result.emotion # "Neutral"

Ran(tag) == tag # "-"
Failed(tag) == tag \in {"raise", "empty"}

\* C21: the strategies run in the order direct decode, converted decode,
\* alternate decode, byte heuristic.  The converter runs only after the
\* direct decode failed and only on a name ending in .webm; the converted
\* file is loaded only after the converter succeeded; the alternate decode
\* runs only after the direct decode failed and no converted buffer was
\* obtained; the byte heuristic runs only after every decode strategy that
\* applied failed; and a strategy that produced a non-empty buffer is the
\* last one to run.
C21_StrategyOrder ==
    /\ Ran(log.conv) => Failed(log.m1) /\ file.ext \in {"webm", "WEBM"}
    /\ Ran(log.m2) => log.conv = "ok"
    /\ Ran(log.m3) => Failed(log.m1) /\ log.m2 \in {"-", "raise"}
    /\ Ran(log.m4) =>
        /\ Failed(log.m1)
        /\ file.ext \in {"webm", "WEBM"} => Ran(log.conv)
        /\ log.conv = "ok" => log.m2 = "raise"
        /\ log.m3 = "raise"
    /\ log.m1 = "ok" =>
        ~Ran(log.conv) /\ ~Ran(log.m2) /\ ~Ran(log.m3) /\ ~Ran(log.m4)
    /\ log.m2 = "ok" => ~Ran(log.m3) /\ ~Ran(log.m4)
    /\ log.m3 = "ok" => ~Ran(log.m4)

\* All four strategies ran, in order, on a .webm upload.
C21_Witness ==
    /\ pc = "returned"
    /\ file.ext = "webm"
    /\ log.m1 = "empty"
    /\ log.conv = "ok"
    /\ log.m2 = "raise"
    /\ log.m3 = "raise"
    /\ log.m4 = "run"

\* C22 (as claimed): a decode strategy that yields zero samples counts as
\* failed and the next strategy of the chain is attempted: feature
\* computation is never entered with an empty buffer, and an extraction in
\* which a decode came back empty does not end without a vector.
C22_EmptyDecodeAdvances ==
    /\ pc = "librosa" => y > 0
    /\ pc = "returned" =>
        /\ log.m1 = "empty" => Ran(log.conv) \/ Ran(log.m3)
        /\ log.m2 = "empty" => Ran(log.m3)
        /\ log.m3 = "empty" => Ran(log.m4)
        /\ "empty" \in {log.m1, log.m2, log.m3} => features # None

ConverterFailed == log.conv \in {"exit_nonzero", "exit_nonzero_partial", "not_found"}

\* C23: when the converter exits non-zero or its executable is missing,
\* convert_webm_to_wav_ffmpeg reports failure, the converted file is not
\* loaded and the chain goes on with the alternate decode; at most one
\* converter process is started per extraction.
C23_ConverterFailureAdvances ==
    /\ log.conv_calls <= 1
    /\ ConverterFailed =>
        /\ ~Ran(log.m2)
        /\ pc \in {"m3", "librosa", "m4", "returned"}
        /\ pc # "m3" => Ran(log.m3)

\* The converter failed after creating its output, and the alternate decode
\* ran next.
C23_Witness ==
    /\ log.conv = "exit_nonzero_partial"
    /\ log.conv_calls = 1
    /\ log.m3 = "ok"
    /\ pc = "returned"

Clamp(v, floor, ceiling) == IF v < floor THEN floor ELSE IF v > ceiling THEN ceiling ELSE v

\* C24 (as claimed): with top1 and top2 the two highest scores of the table,
\* confidence is clamp(base + 2*(top1 - top2), floor, ceiling) when
\* top2 > 0 and clamp(base + top1, floor, ceiling) when top2 = 0, as an
\* integer percentage, with one base (60) for both extraction methods and
\* the bounds [65,95] for PCM-derived vectors, [60,85] for byte-heuristic
\* vectors.
C24_ConfidenceFormula ==
    pc = "scored" =>
        LET s == result.scores
            top1 == s[result.emotion]
            top2 == SecondScore(s)
            raw == IF top2 > 0
                   THEN IntOf(60 * ScoreUnit + 2 * (top1 - top2), ScoreUnit)
                   ELSE IntOf(60 * ScoreUnit + top1, ScoreUnit)
        IN  result.confidence =
                IF result.analysis_method = "basic_file_analysis"
                THEN Clamp(raw, 60, 85)
                ELSE Clamp(raw, 65, 95)

\* C25: for every duration >= 0 the damping factor lies in [0,1] and is 1
\* from 10 s on; it multiplies every non-Neutral score and leaves Neutral
\* untouched; and for the same vector with any longer duration the factor
\* is no smaller, Neutral's score is the same and no non-Neutral score is
\* lower.
C25_DurationDamping ==
    pc = "scored" =>
        LET d == features.duration
            factor == DurationFactor(d)
            rules == RuleScores(features)
        IN  /\ 0 <= factor /\ factor <= ScoreUnit
            /\ d >= Seconds(10) => factor = ScoreUnit
            /\ result.scores["Neutral"] = rules["Neutral"] * ScoreUnit
            /\ \A e \in EmotionSet \ {"Neutral"} :
                result.scores[e] = rules[e] * factor
            /\ \A d2 \in DurationGrid :
                d2 >= d =>
                    LET longer == analyze_emotion_robust(
                                      [features EXCEPT !.duration = d2])
                    IN  /\ DurationFactor(d2) >= factor
                        /\ longer.scores["Neutral"] = result.scores["Neutral"]
                        /\ \A e \in EmotionSet \ {"Neutral"} :
                            longer.scores[e] >= result.scores[e]

\* A clip of 5 s: the non-Neutral scores are halved, Neutral is not.
C25_Witness ==
    /\ pc = "scored"
    /\ features.duration = Seconds(5)
    /\ result.scores["Tristeza"] * 2 = RuleScores(features)["Tristeza"] * ScoreUnit
    /\ result.scores["Neutral"] = RuleScores(features)["Neutral"] * ScoreUnit
    /\ result.scores["Tristeza"] > result.scores["Neutral"]

\* C26 (as claimed): a rule's contribution grows with the amount by which
\* the feature exceeds the rule's threshold: for a clip of 10 s or more and
\* a tempo above 130, the same vector with a higher tempo has a strictly
\* higher Alegria score.
C26_ProportionalRules ==
    (pc = "scored" /\ features.duration >= Seconds(10)
                   /\ Finite(features.tempo) /\ features.tempo > 130) =>
        \A t2 \in TempoGrid :
            (Finite(t2) /\ t2 > features.tempo) =>
                analyze_emotion_robust([features EXCEPT !.tempo = t2])
                    .scores["Alegria"] > result.scores["Alegria"]

\* The request got as far as saving the upload (or failing to).
UploadAttempted ==
    /\ pc = "done"
    /\ response # [status |-> 400, error |-> "no_audio"]
    /\ response # [status |-> 400, error |-> "no_filename"]

\* C27: whichever way analyze_audio exits once the upload has been saved (a
\* result, the empty-file error, no features, no result, an exception), the
\* upload's temp file no longer exists.
C27_UploadRemoved ==
    UploadAttempted => InputPath \notin fs

\* The extraction returned no vector and the request was answered 500.
C27_Witness ==
    /\ UploadAttempted
    /\ response = [status |-> 500, error |-> "no_features"]
    /\ InputPath \notin fs

\* C28 (as claimed): whenever the converted-decode strategy runs (any name
\* ending in .webm, in any letter case), the converter is given an output
\* path different from the input path, and the input file stays on disk
\* throughout the extraction.
C28_InputPreserved ==
    /\ Ran(log.conv) => TempWav(file) # InputPath
    /\ pc \in {"m1", "m2", "converting", "m2load", "m3", "librosa", "m4",
               "returned"} => InputPath \in fs

\* C29: for a vector synthesized by convert_basic_to_audio_features from a
\* file of size > 0 the scorer never selects Enojo: rms is below 0.15 and
\* zcr at most 0.08, so Enojo keeps its base of 5 points times the duration
\* factor, below Neutral's 10.
C29_HeuristicNeverAnger ==
    (pc = "done" /\ ByteHeuristic(features)) =>
        /\ features.rms < RmsMilli(150)
        /\ features.zcr <= ZcrMilli(80)
        /\ result.scores["Enojo"] <= 5 * ScoreUnit
        /\ result.scores["Enojo"] < result.scores["Neutral"]
        /\ result.emotion # "Enojo"

\* A header of 256 distinct bytes puts zcr on its maximum of 0.08, and the
\* file is long enough for the duration factor to be 1.
C29_Witness ==
    /\ pc = "done"
    /\ ByteHeuristic(features)
    /\ features.zcr = ZcrMilli(80)
    /\ features.duration >= Seconds(10)
    /\ result.scores["Enojo"] = 5 * ScoreUnit
    /\ result.emotion # "Enojo"

\* C30: a PCM-derived vector and the vector that differs from it only in
\* carrying the byte-heuristic tag get the same emotion and the same score
\* table, and the tagged vector's confidence is not the higher one.
C30_TagOnlyLowersConfidence ==
    (pc = "scored" /\ ~ByteHeuristic(features)) =>
        LET tagged == analyze_emotion_robust(Tagged(features))
        IN  /\ tagged.analysis_method = "basic_file_analysis"
            /\ result.analysis_method = "librosa"
            /\ tagged.emotion = result.emotion
            /\ tagged.scores = result.scores
            /\ tagged.confidence <= result.confidence

\* The tag costs the full 10 points: 75 for the PCM vector, 65 with the tag.
C30_Witness ==
    /\ pc = "scored"
    /\ ~ByteHeuristic(features)
    /\ result.confidence = 75
    /\ analyze_emotion_robust(Tagged(features)).confidence = 65

====
